---- MODULE Spec2Model ----
(***************************************************************************)
(* A model of neubase (src/src/neubase/neubase.py): the NEUBase catalog    *)
(* over one SQLite file and the NEUTable objects bound to it.              *)
(*                                                                         *)
(* Conventions                                                             *)
(*  - Python strings are TLA+ strings; the character-level functions       *)
(*    (lower, to_alphanumeric, replace) work on the spelling of a string,  *)
(*    given by Spelling, and Text turns a spelling back into the string.   *)
(*  - Python None in a list of names is the string PyNone.                 *)
(*  - A row of an SQL table is a record whose DOMAIN is the table's        *)
(*    column set.  A cell of the value column of __meta__ is a wrapped     *)
(*    Python value: Str(s) a string that holds no JSON lexeme, Json(t)     *)
(*    the string that spells the JSON lexemes t, List(l) a list, Dict(d)   *)
(*    a dict, Num(n) an int.                                               *)
(*  - A data table keeps, per index label, the number of its rows with    *)
(*    that label; the other cells of a row are not represented.           *)
(*  - Every public call is one action.  The call's outcome is kept in      *)
(*    last (the operation, the object, the error raised or OK).  The one   *)
(*    call with a loop on the outside world, excel_out, is a sequence of   *)
(*    steps: the lines before the loop, one step per attempt to open the   *)
(*    workbook, the lines after the loop; no other call runs meanwhile.    *)
(*  - The SQL engine is SQLite as reached through sqlite3/pandas: a        *)
(*    double-quoted token in an expression is a column of the table when   *)
(*    one has that name and a string literal otherwise; the name of a      *)
(*    table is matched without regard to letter case.  Table names hold    *)
(*    no quote.                                                            *)
(*  - pandas is the one the code was written for: ExcelWriter.save        *)
(*    exists, to_sql looks an existing table up by its exact name.         *)
(***************************************************************************)
EXTENDS Integers, Sequences, FiniteSets, TLC

VARIABLES
  db_meta,      \* the __meta__ table of the store
  db_columns,   \* the __columns__ table of the store
  db_tables,    \* the data tables of the store, by name
  meta_files,   \* the metadata workbooks on disk, by path
  neubase,      \* the NEUBase object
  tables,       \* the NEUTable objects, by handle
  connection,   \* TRUE while neubase.connection is open
  last,         \* the last public call and its outcome
  cycle,        \* history: progress of a create / delete / create sequence
  trip,         \* history: progress of a rename there and back
  json_trip,    \* a meta record on its way to JSON text and back
  export        \* excel_out: the position of the call and its local names

vars == <<db_meta, db_columns, db_tables, meta_files, neubase, tables,
          connection, last, cycle, trip, json_trip, export>>

-----------------------------------------------------------------------------
(* Bounds *)

\* most rows a data table holds (inserts stop there)
MaxRows == 2
\* most rows __meta__ / __columns__ hold (appends stop there)
MaxSysRows == 8

-----------------------------------------------------------------------------
(* Strings *)

PyNone == "<None>"
OK == "ok"

\* the spelling of every string the character-level functions meet
Spelling ==
  ( "Id"        :> <<"I", "d">> ) @@
  ( "Full Name" :> <<"F", "u", "l", "l", " ", "N", "a", "m", "e">> ) @@
  ( "Score %"   :> <<"S", "c", "o", "r", "e", " ", "%">> ) @@
  ( "Score"     :> <<"S", "c", "o", "r", "e">> ) @@
  ( "A - B"     :> <<"A", " ", "-", " ", "B">> ) @@
  ( "a_b"       :> <<"a", "_", "b">> ) @@
  ( "id"        :> <<"i", "d">> ) @@
  ( "full_name" :> <<"f", "u", "l", "l", "_", "n", "a", "m", "e">> ) @@
  ( "score"     :> <<"s", "c", "o", "r", "e">> ) @@
  \* the words of output_format and the dtypes
  ( ""          :> <<>> ) @@
  ( "str"       :> <<"s", "t", "r">> ) @@
  ( "int"       :> <<"i", "n", "t">> ) @@
  ( "float"     :> <<"f", "l", "o", "a", "t">> ) @@
  ( "percent"   :> <<"p", "e", "r", "c", "e", "n", "t">> ) @@
  ( "dec_percent" :> <<"d", "e", "c", "_", "p", "e", "r", "c", "e", "n", "t">> ) @@
  ( "r_percent" :> <<"r", "_", "p", "e", "r", "c", "e", "n", "t">> ) @@
  ( "r_dec_percent" :>
      <<"r", "_", "d", "e", "c", "_", "p", "e", "r", "c", "e", "n", "t">> ) @@
  ( "gbp"       :> <<"g", "b", "p">> ) @@
  ( "wrap"      :> <<"w", "r", "a", "p">> ) @@
  ( "object"    :> <<"o", "b", "j", "e", "c", "t">> ) @@
  ( "int64"     :> <<"i", "n", "t", "6", "4">> ) @@
  ( "float64"   :> <<"f", "l", "o", "a", "t", "6", "4">> )

Text(chars) == CHOOSE s \in DOMAIN Spelling : Spelling[s] = chars

UpperChars == {"I", "F", "N", "S", "A", "B"}
LowerOf ==
  ("I" :> "i") @@ ("F" :> "f") @@ ("N" :> "n") @@ ("S" :> "s") @@
  ("A" :> "a") @@ ("B" :> "b")
\* [a-zA-Z0-9_ ] among the characters in use
WordChars == {"I", "F", "N", "S", "A", "B", "i", "d", "u", "l", "a", "m", "e",
              "c", "o", "r", "f", "n", "s", "b", "_", " ",
              "t", "p", "g", "w", "j", "6", "4"}

\* str.lower
lower(chars) ==
  [i \in 1..Len(chars) |-> IF chars[i] \in UpperChars THEN LowerOf[chars[i]] ELSE chars[i]]

\* sub(r'[^a-zA-Z0-9_ ]', r'', text)
strip_other(chars) == SelectSeq(chars, LAMBDA c : c \in WordChars)

\* sub(' +', ' ', text)
RECURSIVE collapse_spaces(_)
collapse_spaces(chars) ==
  IF Len(chars) <= 1 THEN chars
  ELSE IF chars[1] = " " /\ chars[2] = " " THEN collapse_spaces(Tail(chars))
  ELSE <<chars[1]>> \o collapse_spaces(Tail(chars))

\* str.strip
RECURSIVE strip(_)
strip(chars) ==
  IF chars = <<>> THEN chars
  ELSE IF chars[1] = " " THEN strip(Tail(chars))
  ELSE IF chars[Len(chars)] = " " THEN strip(SubSeq(chars, 1, Len(chars) - 1))
  ELSE chars

to_alphanumeric(chars) == strip(collapse_spaces(strip_other(chars)))

\* str.replace(' ', '_')
replace_space(chars) ==
  [i \in 1..Len(chars) |-> IF chars[i] = " " THEN "_" ELSE chars[i]]

\* to_alphanumeric( name.lower() ).replace(' ','_')
db_name_of(name) == Text(replace_space(to_alphanumeric(lower(Spelling[name]))))

-----------------------------------------------------------------------------
(* Python values of the meta record *)

\* a str that holds no JSON lexeme: a word
Str(s) == [str |-> s]
\* a str given by the JSON lexemes it spells
Json(lexemes) == [json |-> lexemes]
Num(n) == [num |-> n]
\* a list of values
List(l) == [list |-> l]
\* a dict: its items, in insertion order; a key is a str or an int
Dict(items) == [dict |-> items]
Item(k, v) == [k |-> k, v |-> v]
NoneValue == [none |-> TRUE]

IsStr(v) == DOMAIN v = {"str"}
IsJson(v) == DOMAIN v = {"json"}
IsNum(v) == DOMAIN v = {"num"}
IsList(v) == DOMAIN v = {"list"}
IsDict(v) == DOMAIN v = {"dict"}

\* the lexemes of a JSON text: a string literal, a number, a punctuation mark
S(s) == [s |-> s]
N(n) == [n |-> n]
P(p) == [p |-> p]

\* the key of a JSON object: json.dumps writes an int key as its digits
key_lexeme(k) == IF IsNum(k) THEN S(ToString(k.num)) ELSE S(k.str)

\* json.dumps of a value
RECURSIVE dumps(_)
RECURSIVE dumps_items(_, _)
RECURSIVE dumps_members(_, _)
dumps_items(l, i) ==
  IF i > Len(l) THEN <<>>
  ELSE (IF i > 1 THEN <<P(",")>> ELSE <<>>) \o dumps(l[i]) \o dumps_items(l, i + 1)
dumps_members(items, i) ==
  IF i > Len(items) THEN <<>>
  ELSE (IF i > 1 THEN <<P(",")>> ELSE <<>>)
       \o <<key_lexeme(items[i].k), P(":")>> \o dumps(items[i].v)
       \o dumps_members(items, i + 1)
dumps(v) ==
  IF IsStr(v) THEN <<S(v.str)>>
  ELSE IF IsNum(v) THEN <<N(v.num)>>
  ELSE IF IsList(v) THEN <<P("[")>> \o dumps_items(v.list, 1) \o <<P("]")>>
  ELSE <<P("{")>> \o dumps_members(v.dict, 1) \o <<P("}")>>

\* d[k] = v on the items of a dict
dict_set(items, k, v) ==
  IF \E i \in 1..Len(items) : items[i].k = k
  THEN [i \in 1..Len(items) |-> IF items[i].k = k THEN Item(k, v) ELSE items[i]]
  ELSE Append(items, Item(k, v))

\* the JSON decoder: the value at the head of the lexemes and the lexemes
\* that follow it, or no value
NoParse == [ok |-> FALSE, value |-> NoneValue, rest |-> <<>>]
Parsed(v, rest) == [ok |-> TRUE, value |-> v, rest |-> rest]
RECURSIVE parse_value(_)
RECURSIVE parse_items(_, _)
RECURSIVE parse_members(_, _)
parse_items(t, acc) ==
  LET r == parse_value(t)
  IN IF ~r.ok \/ r.rest = <<>> THEN NoParse
     ELSE IF Head(r.rest) = P(",") THEN parse_items(Tail(r.rest), Append(acc, r.value))
     ELSE IF Head(r.rest) = P("]") THEN Parsed(List(Append(acc, r.value)), Tail(r.rest))
     ELSE NoParse
parse_members(t, acc) ==
  IF Len(t) < 2 \/ DOMAIN t[1] # {"s"} \/ t[2] # P(":") THEN NoParse
  ELSE LET r == parse_value(SubSeq(t, 3, Len(t)))
           items == dict_set(acc, Str(t[1].s), r.value)
       IN IF ~r.ok \/ r.rest = <<>> THEN NoParse
          ELSE IF Head(r.rest) = P(",") THEN parse_members(Tail(r.rest), items)
          ELSE IF Head(r.rest) = P("}") THEN Parsed(Dict(items), Tail(r.rest))
          ELSE NoParse
parse_value(t) ==
  IF t = <<>> THEN NoParse
  ELSE IF DOMAIN t[1] = {"s"} THEN Parsed(Str(t[1].s), Tail(t))
  ELSE IF DOMAIN t[1] = {"n"} THEN Parsed(Num(t[1].n), Tail(t))
  ELSE IF t[1] = P("[")
  THEN IF Len(t) >= 2 /\ t[2] = P("]") THEN Parsed(List(<<>>), SubSeq(t, 3, Len(t)))
       ELSE parse_items(Tail(t), <<>>)
  ELSE IF t[1] = P("{")
  THEN IF Len(t) >= 2 /\ t[2] = P("}") THEN Parsed(Dict(<<>>), SubSeq(t, 3, Len(t)))
       ELSE parse_members(Tail(t), <<>>)
  ELSE NoParse

\* json.loads raises: the value is no str, or the str is not one JSON text
loads_raises(v) ==
  \/ ~IsJson(v)
  \/ LET r == parse_value(v.json) IN ~r.ok \/ r.rest # <<>>
\* json.loads of a JSON text
loads(v) == parse_value(v.json).value

-----------------------------------------------------------------------------
(* Names, payloads and objects *)

ReservedNames == {"__db__", "__meta__", "__columns__"}
\* the names a data table is created under; "key" is a column of __meta__,
\* "__META__" differs from "__meta__" in letter case only
TableNames == {"t1", "key", "__META__"}
Handles == {"a"}
\* the index labels of the rows; "id" and "score" are column names too
Labels == {"id", "score", "r1"}

\* NEUBase.file_location
DbFile == "db.sqlite"
\* f'data/{self.name}_meta.xlsx'
MetaFilePath(name) ==
  CASE name = "t1" -> "data/t1_meta.xlsx"
    [] name = "key" -> "data/key_meta.xlsx"
    [] OTHER -> "data/__META___meta.xlsx"
Paths == {MetaFilePath(n) : n \in TableNames}

\* data is None
NoData == [index_names |-> <<>>, index_dtype |-> "", columns |-> <<>>,
           dtypes |-> <<>>, index |-> <<>>]

\* The DataFrames a NEUTable is constructed from: the names of the index
\* levels (PyNone for an unnamed level), the column names, the dtypes and
\* the index labels of the rows.
DataPlain ==
  [index_names |-> <<"Id">>, index_dtype |-> "object",
   columns |-> <<"Score">>, dtypes |-> <<"int64">>, index |-> <<"r1">>]
\* the index labels are the db_names of the column and the index
DataLabels ==
  [index_names |-> <<"Id">>, index_dtype |-> "object",
   columns |-> <<"Score">>, dtypes |-> <<"int64">>, index |-> <<"id", "score">>]
DataFull ==
  [index_names |-> <<"Id">>, index_dtype |-> "object",
   columns |-> <<"Full Name", "Score %">>, dtypes |-> <<"object", "float64">>,
   index |-> <<"id">>]
\* two names with one db_name
DataCollide ==
  [index_names |-> <<"Id">>, index_dtype |-> "object",
   columns |-> <<"Score %", "Score">>, dtypes |-> <<"float64", "int64">>,
   index |-> <<"id">>]
\* a name whose spaces run together once the hyphen is deleted
DataSpaced ==
  [index_names |-> <<"Id">>, index_dtype |-> "object",
   columns |-> <<"A - B">>, dtypes |-> <<"int64">>, index |-> <<"id">>]
\* an index and no column
DataBare ==
  [index_names |-> <<"Id">>, index_dtype |-> "object",
   columns |-> <<>>, dtypes |-> <<>>, index |-> <<"id">>]
\* an unnamed index, as DataFrame(...) builds by default
DataUnnamed ==
  [index_names |-> <<PyNone>>, index_dtype |-> "object",
   columns |-> <<"Score">>, dtypes |-> <<"int64">>, index |-> <<"id">>]

StorePayloads == {DataPlain, DataLabels}
Payloads == {DataPlain, DataLabels, DataFull, DataCollide, DataSpaced, DataUnnamed}

\* the initial metadata a NEUBase is constructed with
InitialMeta == ("owner" :> "x")
NoMetaArg == [given |-> FALSE, dict |-> <<>>]
MetaArgs == {NoMetaArg, [given |-> TRUE, dict |-> InitialMeta]}

\* a NEUTable object; input is the data argument it was constructed with
NoTable ==
  [exists |-> FALSE, name |-> "", meta_file |-> PyNone, data |-> NoData,
   input |-> NoData, column_names_group |-> "unset",
   has_meta |-> FALSE, meta |-> <<>>, has_columns |-> FALSE, columns |-> <<>>]

\* a NEUBase object; meta_kind is unset, dict or frame
NoNEUBase ==
  [constructed |-> FALSE, meta_kind |-> "unset", meta |-> <<>>,
   table_list_full |-> {}, table_list |-> {}, view_list |-> {}]

NoSqlTable == [exists |-> FALSE, cols |-> {}, rows |-> <<>>]
NoRows == [label \in Labels |-> 0]
NoDataTable == [exists |-> FALSE, columns |-> <<>>, rows |-> NoRows]
\* SELECT COUNT(*) FROM "<name>"
RECURSIVE SumOver(_, _)
SumOver(rows, labels) ==
  IF labels = {} THEN 0
  ELSE LET label == CHOOSE l \in labels : TRUE
       IN rows[label] + SumOver(rows, labels \ {label})
RowCount(table) == SumOver(table.rows, Labels)
NoFile == [exists |-> FALSE, meta |-> <<>>, columns |-> <<>>]

\* the source file a metadata workbook names under 'file', a CSV file, and
\* the frame read_csv makes of it with the index_col of the workbook
SourceFile == "data/t1.csv"
DataFiles == (SourceFile :> DataPlain)
\* a metadata workbook written by hand for the source file: the Meta sheet
\* and the Columns sheet
HandWrittenFile ==
  [exists |-> TRUE,
   meta |-> ("file" :> Str(SourceFile)) @@ ("index_col" :> Num(0)) @@
            ("db_file" :> Str(DbFile)),
   columns |->
     <<[db_name |-> "id", input_name |-> "Id", dtype |-> "object",
        mc_display_order |-> 0, mc_dtypes |-> "text", output_name |-> "Id",
        output_format |-> "str", output_width |-> 20],
       [db_name |-> "score", input_name |-> "Score", dtype |-> "int64",
        mc_display_order |-> 1, mc_dtypes |-> "number", output_name |-> "Score",
        output_format |-> "int", output_width |-> 20]>>]

-----------------------------------------------------------------------------
(* The state a call works on: the object, the catalog and the store *)

World(self) ==
  [self |-> self, nb |-> neubase, meta |-> db_meta, columns |-> db_columns,
   data |-> db_tables, files |-> meta_files, conn |-> connection, err |-> OK]

Raise(w, e) == [w EXCEPT !.err = e]
Failed(w) == w.err # OK
Then(w, Op(_)) == IF Failed(w) THEN w ELSE Op(w)

\* NEUBase.connect / NEUBase.close
connect(w) == [w EXCEPT !.conn = TRUE]
close(w) == [w EXCEPT !.conn = FALSE]

\* SELECT name FROM sqlite_master WHERE type ='table'
sqlite_master(w) ==
  (IF w.meta.exists THEN {"__meta__"} ELSE {}) \cup
  (IF w.columns.exists THEN {"__columns__"} ELSE {}) \cup
  {n \in TableNames : w.data[n].exists}

\* SQLite matches the name of a table without regard to letter case
sql_name(name) == IF name = "__META__" THEN "__meta__" ELSE name
\* a statement on the data table of the name works on the table __meta__
on_meta(w, name) == sql_name(name) = "__meta__" /\ w.meta.exists
\* a statement on the data table of the name finds a table
table_exists(w, name) == on_meta(w, name) \/ w.data[name].exists
\* what a statement on __meta__ raises when the store has no such table, or
\* has the data table "__META__" in its place
meta_error(w) ==
  IF w.data["__META__"].exists
  THEN "OperationalError: no such column"
  ELSE "OperationalError: no such table: __meta__"

\* table!='__meta__' or table!='__columns__'
is_data_table(table) == table # "__meta__" \/ table # "__columns__"

\* NEUBase.list_tables
list_tables(w) ==
  LET full == sqlite_master(w)
  IN close([w EXCEPT !.nb.table_list_full = full,
                     !.nb.view_list = {},
                     !.nb.table_list = {table \in full : is_data_table(table)}])

\* WHERE table_name="<name>": the quoted token is a column of the row when
\* the table has one of that name, else the string
IntColumns == {"mc_display_order", "output_width"}
ValueColumns == {"value", "values"}
where_table_name(row, name) ==
  IF name \notin DOMAIN row THEN row.table_name = name
  ELSE IF name \in IntColumns THEN FALSE
  ELSE IF name \in ValueColumns THEN row[name] = Str(row.table_name)
  ELSE row.table_name = row[name]

\* the last row with the key, as DataFrame.to_dict keeps it
LastWith(rows, field, k) ==
  rows[CHOOSE i \in 1..Len(rows) :
         /\ rows[i][field] = k
         /\ \A j \in (i+1)..Len(rows) : rows[j][field] # k]

FieldValues(rows, field) == {rows[i][field] : i \in 1..Len(rows)}

\* read_sql(..., index_col='key').to_dict()['value']
value_dict(rows) ==
  [k \in FieldValues(rows, "key") |-> LastWith(rows, "key", k).value]

\* list(d.keys()): the keys in insertion order
KeyOrder == <<"owner", "file", "index_col", "name", "db_file", "meta_file", "sql_index">>
dict_keys(d) == SelectSeq(KeyOrder, LAMBDA k : k \in DOMAIN d)

\* NEUBase.__init__, the store holds __meta__: the rows of "__db__" are read
read_db_meta(w) ==
  LET rows == SelectSeq(w.meta.rows, LAMBDA r : where_table_name(r, "__db__"))
  IN IF "value" \notin w.meta.cols
     THEN Raise(connect(w), "KeyError: value")
     ELSE close([w EXCEPT !.nb.meta_kind = "dict", !.nb.meta = value_dict(rows)])

\* NEUBase.__init__, the store holds no __meta__: it is created, empty or
\* from the meta argument
create_db_meta(w, meta) ==
  IF w.data["__META__"].exists
  THEN Raise(connect(w), "OperationalError: table already exists")
  ELSE IF ~meta.given
  THEN close([w EXCEPT !.meta = [exists |-> TRUE,
                                 cols |-> {"key", "table_name", "value"},
                                 rows |-> <<>>]])
  ELSE LET keys == DOMAIN meta.dict
           key_list == dict_keys(meta.dict)
           meta_df == [i \in 1..Len(key_list) |->
                         [key |-> key_list[i],
                          values |-> Str(meta.dict[key_list[i]]),
                          table_name |-> "__db__"]]
       IN close([w EXCEPT !.meta = [exists |-> TRUE,
                                    cols |-> {"key", "values", "table_name"},
                                    rows |-> meta_df],
                          !.nb.meta_kind = "frame",
                          !.nb.meta = [k \in keys |-> Str(meta.dict[k])]])

\* the __meta__ table without the refusal of a meta argument
NEUBase_init_meta_unguarded(w, meta) ==
  IF "__meta__" \in w.nb.table_list_full
  THEN read_db_meta(w)
  ELSE create_db_meta(w, meta)

\* NEUBase.__init__: the __meta__ table
NEUBase_init_meta(w, meta) ==
  IF "__meta__" \in w.nb.table_list_full
  THEN IF meta.given
       THEN Raise(w, "ValueError: Meta table already exists")
       ELSE read_db_meta(w)
  ELSE create_db_meta(w, meta)

ColumnsColumns ==
  {"db_name", "table_name", "input_name", "dtype", "mc_display_order",
   "mc_dtypes", "output_name", "output_format", "output_width"}

\* NEUBase.__init__: the __columns__ table
NEUBase_init_columns(w) ==
  IF "__columns__" \notin w.nb.table_list_full
  THEN close([w EXCEPT !.columns = [exists |-> TRUE, cols |-> ColumnsColumns,
                                    rows |-> <<>>]])
  ELSE w

\* NEUBase.__init__ on a new object
NEUBase_init(w, meta) ==
  LET w1 == list_tables([w EXCEPT !.nb = NoNEUBase])
      w2 == NEUBase_init_meta(w1, meta)
      w3 == Then(w2, NEUBase_init_columns)
  IN IF Failed(w3) THEN w3 ELSE [w3 EXCEPT !.nb.constructed = TRUE]

-----------------------------------------------------------------------------
(* NEUTable: metadata derived from the data *)

IsFloat(dtype) == dtype \in {"float64", "float32"}
IsInt(dtype) == dtype \in {"int64", "int32"}

\* create_columns_meta with the input names taken as the db_names
create_columns_meta_names_kept(w) ==
  IF w.self.data = NoData
  THEN Raise(w, "AttributeError: NoneType has no attribute index")
  ELSE
    LET data == w.self.data
        input_names == data.index_names \o data.columns
        n == Len(input_names)
        dtypes == [i \in 1..Len(data.index_names) |-> data.index_dtype] \o data.dtypes
    IN IF \E i \in 1..n : input_names[i] = PyNone
       THEN Raise(w, "AttributeError: NoneType has no attribute lower")
       ELSE [w EXCEPT
               !.self.has_columns = TRUE,
               !.self.columns =
                 [i \in 1..n |->
                    [db_name |-> input_names[i],
                     input_name |-> input_names[i],
                     dtype |-> dtypes[i],
                     mc_display_order |-> i - 1,
                     mc_dtypes |-> IF dtypes[i] = "object" THEN "text" ELSE "number",
                     output_name |-> input_names[i],
                     output_format |-> IF IsFloat(dtypes[i]) THEN "float"
                                       ELSE IF IsInt(dtypes[i]) THEN "int" ELSE "str",
                     output_width |-> 20]]]

\* NEUTable.create_columns_meta
create_columns_meta(w) ==
  IF w.self.data = NoData
  THEN Raise(w, "AttributeError: NoneType has no attribute index")
  ELSE
    LET data == w.self.data
        input_names == data.index_names \o data.columns
        n == Len(input_names)
        dtypes == [i \in 1..Len(data.index_names) |-> data.index_dtype] \o data.dtypes
    IN IF \E i \in 1..n : input_names[i] = PyNone
       THEN Raise(w, "AttributeError: NoneType has no attribute lower")
       ELSE [w EXCEPT
               !.self.has_columns = TRUE,
               !.self.columns =
                 [i \in 1..n |->
                    [db_name |-> db_name_of(input_names[i]),
                     input_name |-> input_names[i],
                     dtype |-> dtypes[i],
                     mc_display_order |-> i - 1,
                     mc_dtypes |-> IF dtypes[i] = "object" THEN "text" ELSE "number",
                     output_name |-> input_names[i],
                     output_format |-> IF IsFloat(dtypes[i]) THEN "float"
                                       ELSE IF IsInt(dtypes[i]) THEN "int" ELSE "str",
                     output_width |-> 20]]]

\* {v: k for k, v in self.columns['input_name'].to_dict().items()}: the
\* Series keeps, per db_name, its last row; the inversion keeps, per
\* input_name, the last of those
input_to_db(columns) ==
  LET kept == SelectSeq(columns, LAMBDA r : LastWith(columns, "db_name", r.db_name) = r)
  IN [k \in FieldValues(kept, "input_name") |-> LastWith(kept, "input_name", k).db_name]

\* NEUTable.create_meta_from_data
create_meta_from_data(w) ==
  LET path == MetaFilePath(w.self.name)
      w1 == create_columns_meta([w EXCEPT !.self.meta_file = path])
  IN IF Failed(w1) THEN w1
     ELSE
       LET sql_index == w1.self.data.index_names
           name_map == input_to_db(w1.self.columns)
           meta == IF w1.self.has_meta THEN w1.self.meta ELSE <<>>
           added == ("name" :> Str(w1.self.name)) @@
                    ("db_file" :> Str(DbFile)) @@
                    ("meta_file" :> Str(path)) @@
                    ("sql_index" :> List([i \in 1..Len(sql_index) |-> Str(name_map[sql_index[i]])]))
       IN IF \E i \in 1..Len(sql_index) : sql_index[i] \notin DOMAIN name_map
          THEN Raise(w1, "KeyError: name_map")
          ELSE [w1 EXCEPT !.self.has_meta = TRUE, !.self.meta = added @@ meta]

\* NEUTable.convert_meta_values_to_json
convert_meta_values_to_json(meta) ==
  [k \in DOMAIN meta |->
     IF IsList(meta[k]) \/ IsDict(meta[k]) THEN Json(dumps(meta[k])) ELSE meta[k]]

\* NEUTable.convert_meta_values_from_json
convert_meta_values_from_json(meta) ==
  [k \in DOMAIN meta |->
     IF meta[k] = NoneValue \/ loads_raises(meta[k]) THEN meta[k] ELSE loads(meta[k])]

\* NEUTable.create_meta_df
create_meta_df(meta) ==
  LET meta_data == convert_meta_values_to_json(meta)
      meta_keys == dict_keys(meta_data)
  IN [i \in 1..Len(meta_keys) |-> [key |-> meta_keys[i], value |-> meta_data[meta_keys[i]]]]

-----------------------------------------------------------------------------
(* NEUTable: the two namespaces of the data *)

MapName(name_map, name) == IF name \in DOMAIN name_map THEN name_map[name] ELSE name

\* the renaming that leaves column_names_group as it was
rename_keeping_group(w, new_column_names_group) ==
  IF w.self.column_names_group = "unset"
  THEN Raise(w, "AttributeError: column_names_group")
  ELSE IF new_column_names_group = w.self.column_names_group THEN w
  ELSE IF ~w.self.has_columns THEN Raise(w, "AttributeError: columns")
  ELSE
    LET old == w.self.column_names_group
        columns == w.self.columns
        name_map == [k \in FieldValues(columns, old) |->
                       LastWith(columns, old, k)[new_column_names_group]]
        data == w.self.data
    IN IF data = NoData
       THEN Raise(w, "AttributeError: NoneType has no attribute rename")
       ELSE [w EXCEPT
               !.self.data.columns =
                 [i \in 1..Len(data.columns) |-> MapName(name_map, data.columns[i])],
               !.self.data.index_names =
                 [i \in 1..Len(data.index_names) |-> MapName(name_map, data.index_names[i])]]

\* NEUTable.rename_data_column_names
rename_data_column_names(w, new_column_names_group) ==
  IF w.self.column_names_group = "unset"
  THEN Raise(w, "AttributeError: column_names_group")
  ELSE IF new_column_names_group = w.self.column_names_group THEN w
  ELSE IF ~w.self.has_columns THEN Raise(w, "AttributeError: columns")
  ELSE
    LET old == w.self.column_names_group
        columns == w.self.columns
        name_map == [k \in FieldValues(columns, old) |->
                       LastWith(columns, old, k)[new_column_names_group]]
        data == w.self.data
    IN IF data = NoData
       THEN Raise(w, "AttributeError: NoneType has no attribute rename")
       ELSE [w EXCEPT
               !.self.data.columns =
                 [i \in 1..Len(data.columns) |-> MapName(name_map, data.columns[i])],
               !.self.data.index_names =
                 [i \in 1..Len(data.index_names) |-> MapName(name_map, data.index_names[i])],
               !.self.column_names_group = new_column_names_group]

rename_to_db_name(w) == rename_data_column_names(w, "db_name")

-----------------------------------------------------------------------------
(* NEUTable: persistence *)

\* NEUTable.update_meta_file: the Meta and Columns sheets of the workbook
update_meta_file(w) ==
  IF ~w.self.has_meta THEN Raise(w, "AttributeError: meta")
  ELSE
    LET meta_file == IF "meta_file" \in DOMAIN w.self.meta
                     THEN w.self.meta["meta_file"].str ELSE w.self.meta_file
    IN IF meta_file \notin Paths THEN Raise(w, "ValueError: meta_file")
       ELSE IF ~w.self.has_columns THEN Raise(w, "AttributeError: columns")
       ELSE [w EXCEPT !.files[meta_file] =
               [exists |-> TRUE,
                meta |-> convert_meta_values_to_json(w.self.meta),
                columns |-> w.self.columns]]

\* DELETE FROM <table> WHERE table_name="<name>"
delete_where_table_name(rows, name) ==
  SelectSeq(rows, LAMBDA r : ~where_table_name(r, name))

\* DataFrame.assign(table_name=lambda x: self.name)
assign_table_name(rows, name) ==
  [i \in 1..Len(rows) |->
     [c \in DOMAIN rows[i] \cup {"table_name"} |->
        IF c = "table_name" THEN name ELSE rows[i][c]]]

\* NEUTable.update_meta_tables
update_meta_tables(w) ==
  LET name == w.self.name
      w1 == [connect(w) EXCEPT
               !.meta.rows = delete_where_table_name(w.meta.rows, name),
               !.columns.rows = delete_where_table_name(w.columns.rows, name)]
  IN IF ~w.meta.exists THEN Raise(connect(w), meta_error(w))
     ELSE IF ~w.self.has_meta THEN Raise(w1, "AttributeError: meta")
     ELSE IF ~({"key", "value", "table_name"} \subseteq w1.meta.cols)
     THEN Raise(w1, "OperationalError: table __meta__ has no column named value")
     ELSE
       LET w2 == [w1 EXCEPT !.meta.rows =
                    @ \o assign_table_name(create_meta_df(w.self.meta), name)]
       IN IF ~w.self.has_columns THEN Raise(w2, "AttributeError: columns")
          ELSE list_tables(close(
                 [w2 EXCEPT !.columns.rows =
                    @ \o assign_table_name(w.self.columns, name)]))

Count(seq, x) == Cardinality({i \in 1..Len(seq) : seq[i] = x})
\* sorted(a) == sorted(b)
sorted_equal(a, b) ==
  /\ Len(a) = Len(b)
  /\ \A i \in 1..Len(a) : Count(a, a[i]) = Count(b, a[i])
\* sorted() of a list that holds None and a string raises TypeError
sorted_raises(a) ==
  \E i, j \in 1..Len(a) : a[i] = PyNone /\ a[j] # PyNone

\* NEUTable.test_data_meta_match
test_data_meta_match(data) ==
  sorted_equal(data.columns \o data.index_names, data.index)

\* the column names DataFrame.to_sql gives the table: the index levels
\* (an unnamed one is "index"), then the columns
sql_column_names(data) ==
  [i \in 1..Len(data.index_names) |->
     IF data.index_names[i] = PyNone THEN "index" ELSE data.index_names[i]]
  \o data.columns

HasDuplicates(seq) == \E i, j \in 1..Len(seq) : i # j /\ seq[i] = seq[j]

\* self.data.to_sql(self.name, self.neubase.connection, if_exists='replace'):
\* an existing table is dropped, then the new one is created and filled;
\* SQLite refuses a table with two columns of one name
to_sql_replace(w) ==
  LET names == sql_column_names(w.self.data)
  IN IF on_meta(w, w.self.name)
     THEN Raise(w, "OperationalError: table already exists")
     ELSE IF HasDuplicates(names)
     THEN Raise([w EXCEPT !.data[w.self.name] = NoDataTable],
                "OperationalError: duplicate column name")
     ELSE [w EXCEPT !.data[w.self.name] =
             [exists |-> TRUE, columns |-> names,
              rows |-> [label \in Labels |-> Count(w.self.data.index, label)]]]

\* NEUTable.overwrite_data_table lines 353-359
write_data_table(w) ==
  IF w.self.data = NoData
  THEN Raise(w, "AttributeError: NoneType has no attribute columns")
  ELSE IF sorted_raises(w.self.data.columns \o w.self.data.index_names)
  THEN Raise(w, "TypeError: sorted")
  ELSE IF test_data_meta_match(w.self.data)
  THEN Raise(w, "ValueError: The data columns and column meta do not match.")
  ELSE LET w1 == to_sql_replace(connect(w))
       IN IF Failed(w1) THEN w1 ELSE list_tables(close(w1))

\* overwrite_data_table without the renaming to db_name
overwrite_data_table_as_named(w) ==
  IF w.self.column_names_group = "unset"
  THEN Raise(w, "AttributeError: column_names_group")
  ELSE write_data_table(w)

\* NEUTable.overwrite_data_table
overwrite_data_table(w) ==
  IF w.self.column_names_group = "unset"
  THEN Raise(w, "AttributeError: column_names_group")
  ELSE Then(rename_to_db_name(w), write_data_table)

\* NEUTable.read_data_from_file: the frame read from meta['file'] becomes
\* self.data, in the input_name namespace; the method returns None
read_data_from_file(w) ==
  IF ~w.self.has_meta THEN Raise(w, "AttributeError: meta")
  ELSE IF "file" \notin DOMAIN w.self.meta THEN Raise(w, "KeyError: file")
  ELSE LET file == w.self.meta["file"]
       IN IF ~IsStr(file) THEN Raise(w, "TypeError: file")
          ELSE IF file.str \notin DOMAIN DataFiles THEN Raise(w, "FileNotFoundError")
          ELSE [w EXCEPT !.self.data = DataFiles[file.str],
                         !.self.column_names_group = "input_name"]

\* NEUTable.create_table lines 224-225:
\* if self.data is None: self.data = self.read_data_from_file()
create_table_load(w) ==
  IF w.self.data = NoData
  THEN LET w1 == read_data_from_file(w)
       IN IF Failed(w1) THEN w1 ELSE [w1 EXCEPT !.self.data = NoData]
  ELSE w

\* NEUTable.create_table lines 221-230
create_table_steps(w, meta_file) ==
  LET w1 == IF meta_file = PyNone /\ w.self.meta_file = PyNone
            THEN create_meta_from_data(w) ELSE w
  IN Then(Then(Then(Then(Then(w1, create_table_load), rename_to_db_name),
                    update_meta_file), update_meta_tables), overwrite_data_table)

\* create_table without the test of the name against the catalog
create_table_unchecked(w, meta_file) ==
  create_table_steps(list_tables(w), meta_file)

\* NEUTable.create_table
create_table(w, meta_file) ==
  LET w1 == list_tables(w)
  IN IF w.self.name \in w1.nb.table_list
     THEN Raise(w1, "ValueError: already exists")
     ELSE create_table_steps(w1, meta_file)

\* NEUTable.delete_data_table
delete_data_table(w) ==
  IF ~table_exists(w, w.self.name)
  THEN Raise(connect(w), "OperationalError: no such table")
  ELSE IF on_meta(w, w.self.name)
  THEN close([w EXCEPT !.meta = NoSqlTable])
  ELSE close([w EXCEPT !.data[w.self.name] = NoDataTable])

\* NEUTable.delete_meta_tables
delete_meta_tables(w) ==
  IF ~w.meta.exists
  THEN Raise(connect(w), meta_error(w))
  ELSE close([w EXCEPT
           !.meta.rows = delete_where_table_name(w.meta.rows, w.self.name),
           !.columns.rows = delete_where_table_name(w.columns.rows, w.self.name)])

\* NEUTable.delete
delete(w) == Then(delete_data_table(w), delete_meta_tables)

\* the deletion that hands where to SQLite as it is given
delete_rows_where_verbatim(w, where) ==
  IF ~table_exists(w, w.self.name)
  THEN Raise(connect(w), "OperationalError: no such table")
  ELSE IF where = "all"
  THEN Raise(connect(w), "OperationalError: near \"all\": syntax error")
  ELSE IF on_meta(w, w.self.name)
  THEN Raise(connect(w), "OperationalError: no such column")
  ELSE close([w EXCEPT !.data[w.self.name].rows[where] = 0])

\* NEUTable.delete_rows_from_data_table: where is 'all' or selects the rows
\* with one index label, by the index column
delete_rows_from_data_table(w, where) ==
  IF ~table_exists(w, w.self.name)
  THEN Raise(connect(w), "OperationalError: no such table")
  ELSE IF on_meta(w, w.self.name)
  THEN IF where = "all"
       THEN close([w EXCEPT !.meta.rows = <<>>])
       ELSE Raise(connect(w), "OperationalError: no such column")
  ELSE close([w EXCEPT !.data[w.self.name].rows =
                [label \in Labels |-> IF where = "all" \/ label = where THEN 0 ELSE @[label]]])

\* NEUTable.insert_data_row: a row with the index label
insert_data_row(w, label) ==
  IF ~table_exists(w, w.self.name)
  THEN Raise(connect(w), "OperationalError: no such table")
  ELSE IF on_meta(w, w.self.name)
  THEN Raise(connect(w), "OperationalError: table has no column")
  ELSE close([w EXCEPT !.data[w.self.name].rows[label] = @ + 1])

\* NEUTable.update_data_value on the index column, SET "<column>" = "<value>":
\* the quoted value is the column itself when it is the name of the column,
\* else the string; it is not the name of another column. The rows with
\* the label where get the value.
update_data_value(w, value, where) ==
  LET table == w.data[w.self.name]
  IN IF ~table_exists(w, w.self.name)
     THEN Raise(connect(w), "OperationalError: no such table")
     ELSE IF on_meta(w, w.self.name)
     THEN Raise(connect(w), "OperationalError: no such column")
     ELSE IF value = table.columns[1] \/ value = where
     THEN close(w)
     ELSE close([w EXCEPT !.data[w.self.name].rows =
                   [label \in Labels |->
                      IF label = where THEN 0
                      ELSE IF label = value THEN @[value] + @[where]
                      ELSE @[label]]])

-----------------------------------------------------------------------------
(* NEUTable: construction *)

\* NEUTable.read_meta_file
read_meta_file(w, meta_file) ==
  IF meta_file \notin Paths \/ ~w.files[meta_file].exists
  THEN Raise(w, "FileNotFoundError")
  ELSE [w EXCEPT !.self.has_meta = TRUE,
                 !.self.meta = convert_meta_values_from_json(w.files[meta_file].meta),
                 !.self.has_columns = TRUE,
                 !.self.columns = w.files[meta_file].columns]

\* NEUTable.read_meta_tables
read_meta_tables(w) ==
  LET name == w.self.name
      w1 == connect(w)
  IN IF ~w.meta.exists THEN Raise(w1, meta_error(w))
     ELSE IF "value" \notin w1.meta.cols
     THEN Raise(w1, "OperationalError: no such column: value")
     ELSE
       LET meta_rows == SelectSeq(w1.meta.rows, LAMBDA r : where_table_name(r, name))
           w2 == [w1 EXCEPT !.self.has_meta = TRUE,
                            !.self.meta = convert_meta_values_from_json(value_dict(meta_rows))]
           columns_rows == SelectSeq(w1.columns.rows, LAMBDA r : where_table_name(r, name))
       IN \* .drop(columns=['table'])
          IF "table" \notin w2.columns.cols
          THEN Raise(w2, "KeyError: ['table'] not found in axis")
          ELSE close([w2 EXCEPT
                 !.self.has_columns = TRUE,
                 !.self.columns =
                   [i \in 1..Len(columns_rows) |->
                      [c \in DOMAIN columns_rows[i] \ {"table"} |-> columns_rows[i][c]]]])

\* NEUTable.__init__ without the test of the name
NEUTable_init_any_name(w, name, neubase_given, data, meta_file) ==
  LET self == [NoTable EXCEPT
                 !.exists = TRUE, !.name = name, !.meta_file = meta_file,
                 !.data = data, !.input = data,
                 !.column_names_group = IF data # NoData THEN "input_name" ELSE "unset"]
      w0 == [w EXCEPT !.self = self]
  IN IF ~neubase_given /\ meta_file = PyNone
     THEN Raise(w0, "ValueError: NEUBase not defined.")
     ELSE IF meta_file # PyNone
     THEN LET w1 == read_meta_file(w0, meta_file)
          IN IF Failed(w1) THEN w1
             ELSE IF "db_file" \notin DOMAIN w1.self.meta THEN Raise(w1, "KeyError: db_file")
             ELSE NEUBase_init(w1, NoMetaArg)
     ELSE LET w1 == list_tables(w0)
          IN IF name \in w1.nb.table_list THEN read_meta_tables(w1) ELSE w1

\* NEUTable.__init__; neubase_given: the neubase argument is the NEUBase object
NEUTable_init(w, name, neubase_given, data, meta_file) ==
  LET self == [NoTable EXCEPT
                 !.exists = TRUE, !.name = name, !.meta_file = meta_file,
                 !.data = data, !.input = data,
                 !.column_names_group = IF data # NoData THEN "input_name" ELSE "unset"]
      w0 == [w EXCEPT !.self = self]
  IN IF name \in ReservedNames
     THEN Raise(w0, "ValueError: reserved for system use")
     ELSE IF ~neubase_given /\ meta_file = PyNone
     THEN Raise(w0, "ValueError: NEUBase not defined.")
     ELSE IF meta_file # PyNone
     THEN LET w1 == read_meta_file(w0, meta_file)
          IN IF Failed(w1) THEN w1
             ELSE IF "db_file" \notin DOMAIN w1.self.meta THEN Raise(w1, "KeyError: db_file")
             ELSE NEUBase_init(w1, NoMetaArg)
     ELSE LET w1 == list_tables(w0)
          IN IF name \in w1.nb.table_list THEN read_meta_tables(w1) ELSE w1

-----------------------------------------------------------------------------
(* History *)

NoSlice == [data |-> NoDataTable, meta |-> <<>>, columns |-> <<>>]
NoCycle == [phase |-> "idle", name |-> "", input |-> NoData, slice |-> NoSlice]
NoTrip == [phase |-> "idle", handle |-> "", before |-> NoData]
NoJsonTrip == [phase |-> "idle", meta |-> <<>>, text |-> <<>>, back |-> <<>>]
\* no excel_out was called; freeze_cols is None; a filename is dir_name/name,
\* so many ' (1)' and .xlsx; set_column is the format set on each column of
\* the sheet
NoExport ==
  [pc |-> "idle", handle |-> "", freeze_cols |-> [given |-> FALSE, cols |-> 0],
   col_format |-> <<>>, col_width |-> <<>>, titles |-> <<>>,
   filename |-> [dir_name |-> "", name |-> "", suffixes |-> 0],
   filename_writable |-> FALSE, loop_count |-> 0, attempted |-> <<>>,
   writer |-> [bound |-> FALSE, filename |-> [dir_name |-> "", name |-> "", suffixes |-> 0]],
   num_format |-> "unbound", set_column |-> <<>>,
   saved |-> FALSE, err |-> OK]

\* what the store of w holds under a table name
SliceOf(w, name) ==
  [data |-> w.data[name],
   meta |-> SelectSeq(w.meta.rows, LAMBDA r : r.table_name = name),
   columns |-> SelectSeq(w.columns.rows, LAMBDA r : r.table_name = name)]

Call(op, name, arg, w) ==
  [op |-> op, name |-> name, arg |-> arg, err |-> w.err]

\* create_table, delete, create_table from the same input, all succeeding
CycleAfter(op, w) ==
  IF op = "create_table" /\ ~Failed(w)
  THEN IF cycle.phase = "deleted" /\ cycle.name = w.self.name /\ cycle.input = w.self.input
       THEN [cycle EXCEPT !.phase = "recreated"]
       ELSE [phase |-> "created", name |-> w.self.name, input |-> w.self.input,
             slice |-> SliceOf(w, w.self.name)]
  ELSE IF /\ op = "delete" /\ ~Failed(w)
          /\ cycle.phase \in {"created", "recreated"} /\ cycle.name = w.self.name
  THEN [cycle EXCEPT !.phase = "deleted"]
  ELSE IF op \in {"NEUTable", "list_tables"} THEN cycle
  ELSE NoCycle

\* rename to db_name from input_name, then back, on one object
TripAfter(op, handle, arg, before, w) ==
  IF op = "rename_data_column_names" /\ ~Failed(w)
  THEN IF arg = "db_name" /\ before.column_names_group = "input_name"
       THEN [phase |-> "there", handle |-> handle, before |-> before.data]
       ELSE IF arg = "input_name" /\ trip.phase = "there" /\ trip.handle = handle
       THEN [trip EXCEPT !.phase = "back"]
       ELSE NoTrip
  ELSE NoTrip

\* the store, the catalog and the connection after a call
Effects(w) ==
  /\ db_meta' = w.meta
  /\ db_columns' = w.columns
  /\ db_tables' = w.data
  /\ meta_files' = w.files
  /\ connection' = w.conn

WithinBounds(w) ==
  /\ Len(w.meta.rows) <= MaxSysRows
  /\ Len(w.columns.rows) <= MaxSysRows
  /\ \A n \in TableNames : RowCount(w.data[n]) <= MaxRows

\* a call of a method of the object with the handle
Method(op, handle, arg, w) ==
  /\ WithinBounds(w)
  /\ Effects(w)
  /\ neubase' = w.nb
  /\ tables' = [tables EXCEPT ![handle] = w.self]
  /\ last' = Call(op, w.self.name, arg, w)
  /\ cycle' = CycleAfter(op, w)
  /\ trip' = TripAfter(op, handle, arg, tables[handle], w)
  /\ UNCHANGED <<json_trip, export>>

-----------------------------------------------------------------------------
(* NEUTable: export *)

\* the bound of the loop that looks for a file name it can open
RetryLimit == 20

\* the if statements on cf, in their order, starting from the format
\* num_format names when the column is reached
num_format_for(num_format, cf) ==
  LET chars == Spelling[cf]
      \* chars[:n]
      Prefix(word, n) == SubSeq(word, 1, IF Len(word) < n THEN Len(word) ELSE n)
      is(word) == lower(chars) = Spelling[word]
      f1 == IF \/ lower(Prefix(chars, 3)) = Spelling["int"]
               \/ chars = Prefix(Spelling["int"], Len(chars))
            THEN "int_format" ELSE num_format
      f2 == IF lower(Prefix(chars, 5)) = Spelling["float"] THEN "dec_format" ELSE f1
      f3 == IF is("percent") THEN "percent_format" ELSE f2
      f4 == IF is("dec_percent") THEN "dec_percent_format" ELSE f3
      f5 == IF is("r_percent") THEN "real_percent_format" ELSE f4
      f6 == IF is("r_dec_percent") THEN "real_dec_percent_format" ELSE f5
      f7 == IF is("gbp") THEN "gbp_format" ELSE f6
  IN IF is("wrap") THEN "wrap_format" ELSE f7

\* the names excel_out can read: those of the module, its arguments and its
\* local names; a name that is none of these raises NameError when read
ExcelOutNames ==
  {"connect", "listdir", "path", "mkdir", "DataFrame", "Index", "ExcelWriter",
   "read_csv", "read_excel", "read_sql", "to_numeric", "isnull", "random",
   "sub", "dumps", "loads", "datetime", "tarfile", "na_values", "NEUBase",
   "NEUTable", "to_alphanumeric", "backup", "now", "today", "random_color",
   "self", "col_color", "header", "footer", "fit_to_columns", "notes",
   "wrap_cols", "freeze_cols", "col_format", "col_width", "dir_name",
   "titles", "filename", "filename_writable", "loop_count", "writer",
   "workbook", "worksheet", "header_format", "index_format",
   "index_num_format", "percent_format", "dec_percent_format",
   "real_percent_format", "real_dec_percent_format", "gbp_format",
   "int_format", "dec_format", "str_format", "num_format", "wrap_format",
   "i", "cf", "note", "col", "row_no", "row"}

-----------------------------------------------------------------------------
(* The calls *)

Init ==
  /\ db_meta = NoSqlTable
  /\ db_columns = NoSqlTable
  /\ db_tables = [n \in TableNames |-> NoDataTable]
  /\ meta_files = [p \in Paths |-> NoFile]
  /\ neubase = NoNEUBase
  /\ tables = [h \in Handles |-> NoTable]
  /\ connection = FALSE
  /\ last = [op |-> "none", name |-> "", arg |-> "", err |-> OK]
  /\ cycle = NoCycle
  /\ trip = NoTrip
  /\ json_trip = NoJsonTrip
  /\ export = NoExport

\* NEUBase(file_location, meta=meta): a failed construction leaves no object
NEUBaseNew(metas) ==
  \E meta \in metas :
    LET w == NEUBase_init(World(NoTable), meta)
    IN /\ Effects(w)
       /\ neubase' = IF Failed(w) THEN neubase ELSE w.nb
       /\ last' = Call("NEUBase", "", IF meta.given THEN "meta" ELSE "", w)
       /\ cycle' = NoCycle
       /\ trip' = NoTrip
       /\ UNCHANGED <<tables, json_trip, export>>

\* neubase.list_tables()
ListTables ==
  /\ neubase.constructed
  /\ LET w == list_tables(World(NoTable))
     IN /\ Effects(w)
        /\ neubase' = w.nb
        /\ last' = Call("list_tables", "", "", w)
        /\ cycle' = CycleAfter("list_tables", w)
        /\ trip' = NoTrip
        /\ UNCHANGED <<tables, json_trip, export>>

\* the arguments given to NEUTable(name, ...), for last.arg
Given(neubase_given, data, meta_file) ==
  IF meta_file # PyNone
  THEN IF data # NoData THEN "data,meta_file" ELSE "meta_file"
  ELSE IF neubase_given
  THEN IF data # NoData THEN "neubase,data" ELSE "neubase"
  ELSE IF data # NoData THEN "data" ELSE "none"

\* NEUTable(name, neubase, data, meta_file): a failed construction leaves no
\* object, and the handle keeps what it held
NEUTableNew(names, payloads, meta_files_given) ==
  \E handle \in Handles, name \in names, neubase_given \in BOOLEAN,
     data \in payloads \cup {NoData}, meta_file \in meta_files_given \cup {PyNone} :
    /\ neubase_given => neubase.constructed
    /\ LET w == NEUTable_init(World(NoTable), name, neubase_given, data, meta_file)
       IN /\ Effects(w)
          /\ neubase' = IF Failed(w) /\ meta_file # PyNone THEN neubase ELSE w.nb
          /\ tables' = IF Failed(w) THEN tables ELSE [tables EXCEPT ![handle] = w.self]
          /\ last' = Call("NEUTable", name, Given(neubase_given, data, meta_file), w)
          /\ cycle' = CycleAfter("NEUTable", w)
          /\ trip' = NoTrip
          /\ UNCHANGED <<json_trip, export>>

CreateTable ==
  \E handle \in Handles, meta_file \in {PyNone, MetaFilePath("t1")} :
    /\ tables[handle].exists
    /\ Method("create_table", handle, meta_file,
              create_table(World(tables[handle]), meta_file))

UpdateMetaTables ==
  \E handle \in Handles :
    /\ tables[handle].exists
    /\ Method("update_meta_tables", handle, "", update_meta_tables(World(tables[handle])))

OverwriteDataTable ==
  \E handle \in Handles :
    /\ tables[handle].exists
    /\ Method("overwrite_data_table", handle, "", overwrite_data_table(World(tables[handle])))

Delete ==
  \E handle \in Handles :
    /\ tables[handle].exists
    /\ Method("delete", handle, "", delete(World(tables[handle])))

DeleteRowsFromDataTable ==
  \E handle \in Handles, where \in {"all"} \cup Labels :
    /\ tables[handle].exists
    /\ Method("delete_rows_from_data_table", handle, where,
              delete_rows_from_data_table(World(tables[handle]), where))

InsertDataRow ==
  \E handle \in Handles, label \in Labels :
    /\ tables[handle].exists
    /\ Method("insert_data_row", handle, label,
              insert_data_row(World(tables[handle]), label))

UpdateDataValue ==
  \E handle \in Handles, value \in {"id", "r1"}, where \in Labels :
    /\ tables[handle].exists
    /\ Method("update_data_value", handle, value,
              update_data_value(World(tables[handle]), value, where))

\* rename_data_column_names(new_column_names_group), the group one of groups
RenameTo(groups) ==
  \E handle \in Handles, new_column_names_group \in groups :
    /\ tables[handle].exists
    /\ Method("rename_data_column_names", handle, new_column_names_group,
              rename_data_column_names(World(tables[handle]), new_column_names_group))

RenameDataColumnNames == RenameTo({"input_name", "db_name"})

\* one table name and a reserved one, every operation, the rows of the table
Next ==
  \/ NEUBaseNew(MetaArgs)
  \/ ListTables
  \/ NEUTableNew({"t1", "__meta__"}, StorePayloads, {})
  \/ CreateTable
  \/ UpdateMetaTables
  \/ OverwriteDataTable
  \/ Delete
  \/ DeleteRowsFromDataTable
  \/ InsertDataRow
  \/ UpdateDataValue

Spec == Init /\ [][Next]_vars

\* a table name that differs from "__meta__" in letter case only
NextCase ==
  \/ NEUBaseNew({NoMetaArg})
  \/ ListTables
  \/ NEUTableNew({"__META__"}, {DataPlain}, {})
  \/ CreateTable
  \/ UpdateMetaTables
  \/ OverwriteDataTable
  \/ Delete
  \/ DeleteRowsFromDataTable
  \/ InsertDataRow
  \/ UpdateDataValue

SpecCase == Init /\ [][NextCase]_vars

\* two table names whose frames share the system tables
NextNames ==
  \/ NEUBaseNew({NoMetaArg})
  \/ NEUTableNew({"t1", "key"}, {DataPlain}, {})
  \/ CreateTable
  \/ UpdateMetaTables
  \/ Delete

SpecNames == Init /\ [][NextNames]_vars

\* one table name, every payload, the metadata file and the two namespaces
NextData ==
  \/ NEUBaseNew({NoMetaArg})
  \/ NEUTableNew({"t1", "__db__"}, Payloads, {MetaFilePath("t1")})
  \/ CreateTable
  \/ RenameDataColumnNames

SpecData == Init /\ [][NextData]_vars

\* every reserved name on every path of the construction
NextReserved ==
  \/ NEUBaseNew({NoMetaArg})
  \/ NEUTableNew({"t1"} \cup ReservedNames, {DataPlain}, {MetaFilePath("t1")})
  \/ CreateTable
  \/ Delete

SpecReserved == Init /\ [][NextReserved]_vars

\* data written under the columns metadata of another frame
NextMatch ==
  \/ NEUBaseNew({NoMetaArg})
  \/ NEUTableNew({"t1"}, {DataPlain, DataLabels, DataFull}, {MetaFilePath("t1")})
  \/ CreateTable
  \/ OverwriteDataTable

SpecMatch == Init /\ [][NextMatch]_vars

\* a table backed by a source file and a metadata workbook written by hand
InitFile ==
  /\ Init!1 /\ Init!2 /\ Init!3
  /\ meta_files = [p \in Paths |-> IF p = MetaFilePath("t1") THEN HandWrittenFile ELSE NoFile]
  /\ Init!5 /\ Init!6 /\ Init!7 /\ Init!8 /\ Init!9 /\ Init!10 /\ Init!11
  /\ Init!12

NextFile ==
  \/ NEUBaseNew({NoMetaArg})
  \/ NEUTableNew({"t1"}, {DataPlain, DataFull}, {MetaFilePath("t1")})
  \/ CreateTable
  \/ RenameDataColumnNames

SpecFile == InitFile /\ [][NextFile]_vars

\* the namespaces of the columns metadata: the two of the data and one of
\* the names for other systems
NextGroups ==
  \/ NEUBaseNew({NoMetaArg})
  \/ NEUTableNew({"t1"}, {DataPlain, DataFull}, {})
  \/ CreateTable
  \/ OverwriteDataTable
  \/ RenameTo({"input_name", "db_name", "output_name"})

SpecGroups == Init /\ [][NextGroups]_vars

\* the values of the meta record of a table: words, strs that spell JSON
\* lexemes, lists and dicts as the Meta sheet documents them (usecols,
\* names, dtype by column number or column name)
MetaNames == {Str("t1"), Json(<<N(7)>>), Json(<<P("["), N(1), P(",")>>), NoneValue}
MetaLists ==
  {List(<<>>), List(<<Num(0), Num(2)>>), List(<<Str("id"), Str("score")>>),
   List(<<List(<<Num(1)>>), Str("id")>>)}
MetaDicts ==
  {Dict(<<>>), Dict(<<Item(Str("id"), Str("int64"))>>),
   Dict(<<Item(Num(0), Str("int64"))>>),
   Dict(<<Item(Num(1), Str("object")), Item(Str("1"), Str("int64"))>>),
   Dict(<<Item(Str("id"), List(<<Num(1)>>))>>)}
MetaRecords ==
  {("name" :> n) @@ ("usecols" :> l) @@ ("dtype" :> d) :
     n \in MetaNames, l \in MetaLists, d \in MetaDicts}

InitJson ==
  /\ Init!1 /\ Init!2 /\ Init!3 /\ Init!4 /\ Init!5
  /\ Init!6 /\ Init!7 /\ Init!8 /\ Init!9 /\ Init!10 /\ Init!12
  /\ \E meta \in MetaRecords :
       json_trip = [phase |-> "input", meta |-> meta, text |-> <<>>, back |-> <<>>]

\* meta_data = self.convert_meta_values_to_json()
ConvertMetaValuesToJson ==
  /\ json_trip.phase = "input"
  /\ json_trip' = [json_trip EXCEPT !.phase = "dumped",
                                    !.text = convert_meta_values_to_json(json_trip.meta)]
  /\ UNCHANGED <<db_meta, db_columns, db_tables, meta_files, neubase, tables,
                 connection, last, cycle, trip, export>>

\* self.convert_meta_values_from_json() with the JSON texts as self.meta
ConvertMetaValuesFromJson ==
  /\ json_trip.phase = "dumped"
  /\ json_trip' = [json_trip EXCEPT !.phase = "loaded",
                                    !.back = convert_meta_values_from_json(json_trip.text)]
  /\ UNCHANGED <<db_meta, db_columns, db_tables, meta_files, neubase, tables,
                 connection, last, cycle, trip, export>>

NextJson ==
  \/ ConvertMetaValuesToJson
  \/ ConvertMetaValuesFromJson

SpecJson == InitJson /\ [][NextJson]_vars

\* table.excel_out(freeze_cols=freeze_cols), the lines before the loop:
\* col_format, col_width, dir_name, titles and the first filename.
\* self.columns.<field>.loc[col] is the cell of the row of db_name col, a
\* Series when several rows have that db_name.  The directory is not made
\* unless the meta record names one; the time stamp of its name is left out.
\* A call that raises ends here, and its outcome is kept in last.
ExcelOut ==
  \E handle \in Handles,
     freeze_cols \in {[given |-> FALSE, cols |-> 0], [given |-> TRUE, cols |-> 1]} :
    LET self == tables[handle]
        cols == self.data.columns
        labels == IF self.columns = <<>>
                  THEN ColumnsColumns \ {"db_name", "table_name"}
                  ELSE DOMAIN self.columns[1] \ {"db_name"}
        field == IF "output_format" \in labels THEN "output_format" ELSE "dtype"
        loc(name, col) ==
          LET rows == SelectSeq(self.columns, LAMBDA r : r.db_name = col)
          IN IF Len(rows) = 1 THEN rows[1][name] ELSE "<Series>"
        err ==
          IF ~self.has_columns THEN "AttributeError: columns"
          ELSE IF self.data = NoData
          THEN "AttributeError: NoneType has no attribute columns"
          ELSE IF cols # <<>> /\ field \notin labels THEN "AttributeError: dtype"
          ELSE IF \E i \in 1..Len(cols) : \A r \in 1..Len(self.columns) :
                                             self.columns[r].db_name # cols[i]
          THEN "KeyError: column"
          ELSE IF cols # <<>> /\ "col_width" \notin labels
          THEN "AttributeError: col_width"
          ELSE IF ~self.has_meta THEN "AttributeError: meta"
          ELSE OK
        x == [NoExport EXCEPT !.handle = handle, !.freeze_cols = freeze_cols]
    IN /\ export.pc = "idle"
       /\ self.exists
       /\ IF err # OK
          THEN /\ export' = [NoExport EXCEPT !.err = err]
               /\ last' = [op |-> "excel_out", name |-> self.name,
                           arg |-> IF freeze_cols.given THEN "freeze_cols" ELSE "",
                           err |-> err]
               /\ cycle' = NoCycle
               /\ trip' = NoTrip
          ELSE /\ export' =
                    [x EXCEPT
                       !.pc = "loop",
                       !.col_format = [i \in 1..Len(cols) |-> loc(field, cols[i])],
                       !.col_width = [i \in 1..Len(cols) |-> loc("col_width", cols[i])],
                       !.titles = self.data.index_names \o cols,
                       !.filename =
                         [dir_name |-> IF "output_dir" \in DOMAIN self.meta
                                       THEN self.meta["output_dir"].str
                                       ELSE "output/spreadsheets",
                          name |-> self.name, suffixes |-> 0]]
               /\ UNCHANGED <<last, cycle, trip>>
       /\ UNCHANGED <<db_meta, db_columns, db_tables, meta_files, neubase, tables,
                      connection, json_trip>>

\* one round of while not filename_writable and loop_count < 20:
\* ExcelWriter(filename) opens the file or raises, as the file system has
\* it; the name after a failure is filename[:-5] + ' (1).xlsx'
ExcelWriterAttempt ==
  \E opens \in BOOLEAN :
    LET tried == [export EXCEPT !.attempted = Append(@, export.filename),
                                !.loop_count = @ + 1]
    IN /\ export.pc = "loop"
       /\ ~export.filename_writable /\ export.loop_count < RetryLimit
       /\ export' =
            IF opens
            THEN [tried EXCEPT !.writer = [bound |-> TRUE, filename |-> export.filename],
                               !.filename_writable = TRUE]
            ELSE [tried EXCEPT !.filename.suffixes = @ + 1]
       /\ UNCHANGED <<db_meta, db_columns, db_tables, meta_files, neubase, tables,
                      connection, last, cycle, trip, json_trip>>

\* the lines after the loop, with the arguments other than freeze_cols at
\* their defaults: to_excel(writer, ...), the formats of the workbook
\* (num_format = str_format), the loop over col_format, the panes,
\* writer.save(); of the call the sheet's formats, whether the workbook was
\* saved and the outcome remain.  set_columns(x, i) is for i, cf in
\* enumerate(col_format)
\* from the i-th column on: the choice of num_format, then
\* set_column(i, i, col_width[i], ...) on the i-th column of the sheet, the
\* index levels getting index_num_format when index is true.
ExcelOutWrite ==
  LET RECURSIVE set_columns(_, _)
      set_columns(x, i) ==
        IF i > Len(x.col_format) THEN x
        ELSE IF x.col_format[i] = "<Series>"
        THEN [x EXCEPT !.err = "AttributeError: Series has no attribute lower"]
        ELSE
          LET chosen == [x EXCEPT !.num_format = num_format_for(@, x.col_format[i])]
              index_levels == Len(x.titles) - Len(x.col_format)
          IN IF "index" \notin ExcelOutNames
             THEN [chosen EXCEPT !.err = "NameError: name 'index' is not defined"]
             ELSE set_columns(
                    [chosen EXCEPT !.set_column =
                       Append(@, IF i <= index_levels THEN "index_num_format"
                                 ELSE chosen.num_format)],
                    i + 1)
      formatted == set_columns([export EXCEPT !.num_format = "str_format"], 1)
      x == IF ~export.writer.bound
           THEN [export EXCEPT !.err = "UnboundLocalError: writer"]
           ELSE IF formatted.err # OK THEN formatted
           ELSE IF ~export.freeze_cols.given /\ "index" \notin ExcelOutNames
           THEN [formatted EXCEPT !.err = "NameError: name 'index' is not defined"]
           ELSE [formatted EXCEPT !.saved = TRUE]
  IN /\ export.pc = "loop"
     /\ ~(~export.filename_writable /\ export.loop_count < RetryLimit)
     /\ export' = [NoExport EXCEPT !.set_column = x.set_column,
                                   !.saved = x.saved, !.err = x.err]
     /\ last' = [op |-> "excel_out", name |-> tables[x.handle].name,
                 arg |-> IF x.freeze_cols.given THEN "freeze_cols" ELSE "",
                 err |-> x.err]
     /\ cycle' = NoCycle
     /\ trip' = NoTrip
     /\ UNCHANGED <<db_meta, db_columns, db_tables, meta_files, neubase, tables,
                    connection, json_trip>>

\* a workbook written by hand is on disk: as it is, or with the widths that
\* excel_out reads, under col_width, with or without output_format
InitExport ==
  /\ Init!1 /\ Init!2 /\ Init!3
  /\ \E widths \in BOOLEAN, formats \in BOOLEAN :
       LET sheet(row) ==
             [c \in (DOMAIN row \ (IF formats THEN {} ELSE {"output_format", "output_width"}))
                    \cup (IF widths THEN {"col_width"} ELSE {}) |->
                IF c = "col_width" THEN 20 - 8 * row.mc_display_order ELSE row[c]]
           file == [HandWrittenFile EXCEPT !.columns =
                      [i \in 1..Len(@) |-> sheet(@[i])]]
       IN /\ widths \/ formats
          /\ meta_files = [p \in Paths |->
                             IF p = MetaFilePath("t1") THEN file ELSE NoFile]
  /\ Init!5 /\ Init!6 /\ Init!7 /\ Init!8 /\ Init!9 /\ Init!10 /\ Init!11
  /\ Init!12

\* a table of a workbook, in either namespace, exported; the code runs no
\* other call while excel_out runs
NextExport ==
  \/ export.pc = "idle" /\ NEUTableNew({"t1"}, {DataPlain, DataBare}, {MetaFilePath("t1")})
  \/ export.pc = "idle" /\ RenameDataColumnNames
  \/ ExcelOut
  \/ ExcelWriterAttempt
  \/ ExcelOutWrite

SpecExport == InitExport /\ [][NextExport]_vars

(***************************************************************************)
(* Properties                                                              *)
(***************************************************************************)

\* the store as a fresh connection sees it
Store == World(NoTable)
\* the tables of the store, system tables included
AllTables == <<db_meta, db_columns, db_tables>>

\* C1: once a catalog is constructed, the table_list that list_tables()
\* returns and stores never holds "__meta__" or "__columns__"
C1_TableListHidesSystemTables ==
  neubase.constructed => neubase.table_list \cap {"__meta__", "__columns__"} = {}

\* C2: create_table() on a table whose name the catalog already holds raises
\* "already exists" and leaves every table, every metadata file and the
\* object as they were
C2_CreateExistingFailsFirst ==
  [][\A h \in Handles :
       ( /\ last'.op = "create_table"
         /\ tables[h].exists
         /\ tables[h].name \in sqlite_master(Store) )
       => ( /\ last'.err = "ValueError: already exists"
            /\ UNCHANGED <<AllTables, meta_files>>
            /\ tables'[h] = tables[h] )]_vars

\* C2 happens: create_table() was refused for a table that is in the store
C2_Witness ==
  /\ last.op = "create_table"
  /\ last.err = "ValueError: already exists"
  /\ db_tables[last.name].exists

\* the names list_tables() would return now
ListedNames == list_tables(Store).nb.table_list

\* C3: create_table() of a table built from a DataFrame, with no metadata
\* file, under a name the catalog does not hold, succeeds; the store then
\* holds the data table and list_tables() returns the name
C3_CreateFromDataSucceeds ==
  [][\A h \in Handles :
       ( /\ last'.op = "create_table" /\ last'.arg = PyNone
         /\ tables[h].exists
         /\ tables[h].data # NoData
         /\ tables[h].meta_file = PyNone
         /\ tables[h].name \notin sqlite_master(Store) )
       => ( /\ last'.err = OK
            /\ db_tables'[tables[h].name].exists
            /\ tables[h].name \in ListedNames' )]_vars

\* C4: delete_rows_from_data_table('all') on a table of the store leaves the
\* table in place with no row, still returned by list_tables(), and leaves
\* the rows of __meta__ and __columns__ as they were
C4_DeleteAllRowsKeepsTable ==
  [][\A h \in Handles :
       ( /\ last'.op = "delete_rows_from_data_table" /\ last'.arg = "all"
         /\ tables[h].exists
         /\ db_tables[tables[h].name].exists )
       => ( /\ last'.err = OK
            /\ db_tables'[tables[h].name].exists
            /\ RowCount(db_tables'[tables[h].name]) = 0
            /\ tables[h].name \in ListedNames'
            /\ UNCHANGED <<db_meta, db_columns>> )]_vars

\* C4 happens: all rows were deleted from a table that has metadata rows
C4_Witness ==
  /\ last.op = "delete_rows_from_data_table" /\ last.arg = "all"
  /\ last.err = OK
  /\ db_tables[last.name].exists
  /\ RowCount(db_tables[last.name]) = 0
  /\ \E i \in 1..Len(db_columns.rows) : db_columns.rows[i].table_name = last.name

\* C5: after create_table(), delete() and create_table() from the same
\* input, the store holds under the name what it held after the first
\* create_table(): the same data rows and the same metadata rows
C5_RecreateRestoresState ==
  cycle.phase = "recreated" => SliceOf(Store, cycle.name) = cycle.slice

\* C6: NEUTable(name, neubase), with no data and no metadata file, on a name
\* whose table the store holds, succeeds with meta and columns read from
\* the system tables
C6_RehydrationSucceeds ==
  [][( /\ last'.op = "NEUTable" /\ last'.arg = "neubase"
       /\ last'.name \in TableNames
       /\ db_tables[last'.name].exists )
     => ( /\ last'.err = OK
          /\ \E h \in Handles :
               /\ tables'[h].exists
               /\ tables'[h].name = last'.name
               /\ tables'[h].meta_file = PyNone
               /\ tables'[h].has_meta
               /\ tables'[h].has_columns )]_vars

\* the rows NEUBase(file, meta=InitialMeta) is to write
SeedRows ==
  {[key |-> k, value |-> Str(InitialMeta[k]), table_name |-> "__db__"] :
     k \in DOMAIN InitialMeta}

\* C7: NEUBase(file, meta=M) on a store without __meta__ writes one row
\* (key, value, "__db__") per key of M into a __meta__ table of the columns
\* key, value and table_name; a later NEUBase(file) reads M back
C7_SeededMetaReadBack ==
  [][/\ ( /\ last'.op = "NEUBase" /\ last'.arg = "meta"
          /\ ~db_meta.exists )
        => ( /\ last'.err = OK
             /\ db_meta'.exists
             /\ db_meta'.cols = {"key", "value", "table_name"}
             /\ Len(db_meta'.rows) = Cardinality(SeedRows)
             /\ {db_meta'.rows[i] : i \in 1..Len(db_meta'.rows)} = SeedRows )
     /\ ( /\ last'.op = "NEUBase" /\ last'.arg = ""
          /\ \E i \in 1..Len(db_meta.rows) :
               /\ db_meta.rows[i].table_name = "__db__"
               /\ db_meta.rows[i].key \in DOMAIN InitialMeta )
        => ( /\ last'.err = OK
             /\ neubase'.meta_kind = "dict"
             /\ neubase'.meta = [k \in DOMAIN InitialMeta |-> Str(InitialMeta[k])] )]_vars

\* C8: NEUBase(file, meta=M) on a store that holds __meta__ raises "Meta
\* table already exists" and leaves every table as it was; NEUBase(file)
\* never raises that error
C8_MetaGivenOnExistingStoreFails ==
  [][( /\ last'.op = "NEUBase"
       /\ db_meta.exists )
     => IF last'.arg = "meta"
        THEN /\ last'.err = "ValueError: Meta table already exists"
             /\ UNCHANGED <<AllTables, meta_files>>
        ELSE last'.err # "ValueError: Meta table already exists"]_vars

\* C8 happens: a meta argument was refused on a store that holds a table
C8_Witness ==
  /\ last.op = "NEUBase" /\ last.arg = "meta"
  /\ last.err = "ValueError: Meta table already exists"
  /\ db_meta.exists
  /\ \E n \in TableNames : db_tables[n].exists

\* C9: once a catalog is constructed, the store holds __meta__ and
\* __columns__, whatever the tables are then made to do
C9_SystemTablesStay ==
  neubase.constructed => db_meta.exists /\ db_columns.exists

\* the object whose names went to db_name and back
Tripper == tables[trip.handle]
\* the names of a DataFrame
NamesOf(data) ==
  {data.columns[i] : i \in 1..Len(data.columns)}
    \cup {data.index_names[i] : i \in 1..Len(data.index_names)}
\* the columns metadata pairs each name of the data with a db_name of its own
OneToOne(columns, data) ==
  /\ NamesOf(data) \subseteq FieldValues(columns, "input_name")
  /\ \A i, j \in 1..Len(columns) :
       columns[i].db_name = columns[j].db_name
         => columns[i].input_name = columns[j].input_name

\* C10 as stated: rename_data_column_names('db_name') and then
\* rename_data_column_names('input_name') give back the column names and
\* the index names the data had, with column_names_group 'input_name'
C10_RenameRoundTrip ==
  trip.phase = "back"
    => Tripper.data = trip.before /\ Tripper.column_names_group = "input_name"

\* C10 amended: the round trip gives the names back when the columns
\* metadata pairs each name of the data with a db_name of its own
C10_RenameRoundTripOneToOne ==
  (trip.phase = "back" /\ OneToOne(Tripper.columns, trip.before))
    => Tripper.data = trip.before /\ Tripper.column_names_group = "input_name"

\* C10 happens: names that differ from their db_names went there and back
C10_Witness ==
  /\ trip.phase = "back"
  /\ OneToOne(Tripper.columns, trip.before)
  /\ \E i \in 1..Len(Tripper.columns) :
       Tripper.columns[i].db_name # Tripper.columns[i].input_name
  /\ Tripper.data = trip.before

\* C11: convert_meta_values_to_json and then convert_meta_values_from_json
\* give back every list and every dict equal to the original, and leave as
\* it was every str that is not one JSON text
C11_JsonRoundTrip ==
  json_trip.phase = "loaded" =>
    \A k \in DOMAIN json_trip.meta :
      LET v == json_trip.meta[k]
      IN /\ (IsList(v) \/ IsDict(v)) => json_trip.back[k] = v
         /\ ((IsStr(v) \/ IsJson(v)) /\ loads_raises(v)) => json_trip.back[k] = v

\* the db_name of each input name, worked by hand: lower case, the characters
\* outside [a-zA-Z0-9_ ] deleted, runs of spaces made one space, the ends
\* trimmed, each space made "_"
ExpectedDbName ==
  ("Id" :> "id") @@ ("Full Name" :> "full_name") @@ ("Score %" :> "score") @@
  ("Score" :> "score") @@ ("A - B" :> "a_b") @@
  ("id" :> "id") @@ ("full_name" :> "full_name") @@ ("score" :> "score") @@
  ("a_b" :> "a_b")
\* the letters of a name, in lower case
LettersOf ==
  ("Id" :> "id") @@ ("Full Name" :> "fullname") @@ ("Score %" :> "score") @@
  ("Score" :> "score") @@ ("A - B" :> "ab") @@
  ("id" :> "id") @@ ("full_name" :> "fullname") @@ ("score" :> "score") @@
  ("a_b" :> "ab")
\* the columns metadata of the objects that hold one
ColumnsMetas == {tables[h].columns : h \in {h \in Handles : tables[h].has_columns}}

ReservedRows(table) == SelectSeq(table.rows, LAMBDA r : r.table_name \in ReservedNames)

\* C13: NEUTable('__db__' | '__meta__' | '__columns__', ...) raises the
\* reserved-name error whatever else it is given, and leaves the store, the
\* metadata files, the catalog and the objects as they were; no object has
\* a reserved name and no row of a system table is tagged with one
C13_ReservedNameRefused ==
  [][/\ ( /\ last'.op = "NEUTable"
          /\ last'.name \in ReservedNames )
        => ( /\ last'.err = "ValueError: reserved for system use"
             /\ UNCHANGED <<AllTables, meta_files, neubase, tables, connection>> )
     /\ \A h \in Handles : tables'[h].exists => tables'[h].name \notin ReservedNames
     /\ ReservedRows(db_meta') = <<>>
     /\ ReservedRows(db_columns') = <<>>]_vars

\* C13 happens: a reserved name was refused where the construction from
\* data and a metadata file was otherwise possible
C13_Witness ==
  /\ last.op = "NEUTable" /\ last.arg = "data,meta_file"
  /\ last.name = "__columns__"
  /\ last.err = "ValueError: reserved for system use"
  /\ meta_files[MetaFilePath("t1")].exists
  /\ db_tables["t1"].exists

\* the rows of a system table tagged with the name, and the other rows
RowsOf(table, name) == SelectSeq(table.rows, LAMBDA r : r.table_name = name)
RowsNotOf(table, name) == SelectSeq(table.rows, LAMBDA r : r.table_name # name)

\* C14: delete() on a table of the store returns, removes the data table
\* and the rows of __meta__ and __columns__ tagged with its name, and leaves
\* the other data tables and the rows tagged with other names as they were
C14_DeleteRemovesOwnOnly ==
  [][\A h \in Handles :
       ( /\ last'.op = "delete"
         /\ tables[h].exists
         /\ db_tables[tables[h].name].exists )
       => LET name == tables[h].name
          IN /\ last'.err = OK
             /\ ~db_tables'[name].exists
             /\ RowsOf(db_meta', name) = <<>>
             /\ RowsOf(db_columns', name) = <<>>
             /\ \A n \in TableNames \ {name} : db_tables'[n] = db_tables[n]
             /\ RowsNotOf(db_meta', name) = RowsNotOf(db_meta, name)
             /\ RowsNotOf(db_columns', name) = RowsNotOf(db_columns, name)]_vars

\* C15: after every public call, returned or raised, the connection the
\* call opened is closed
C15_NoConnectionLeftOpen ==
  connection = FALSE

\* C16: overwrite_data_table() of an object with data and columns metadata
\* writes the data table only when the column and index names of the data
\* are, as a set, the db_names of the metadata; when they are not it raises
\* "do not match" and leaves the data tables as they were
C16_WritesOnlyOnMatch ==
  [][\A h \in Handles :
       ( /\ last'.op = "overwrite_data_table"
         /\ tables[h].exists
         /\ tables[h].has_columns
         /\ tables[h].data # NoData )
       => LET t == tables'[h]
              match == NamesOf(t.data) = FieldValues(t.columns, "db_name")
          IN /\ last'.err = OK => match
             /\ ~match =>
                  /\ last'.err = "ValueError: The data columns and column meta do not match."
                  /\ db_tables' = db_tables]_vars

\* C17: when update_meta_tables() returns, the rows of __meta__ tagged with
\* the name of the table are the entries of its meta, one row per key, the
\* rows of __columns__ tagged with it are the rows of its columns, and the
\* rows tagged with other names are as they were
C17_MetaRowsReplaced ==
  [][\A h \in Handles :
       ( /\ last'.op = "update_meta_tables" /\ last'.err = OK
         /\ tables[h].exists )
       => LET t == tables[h]
          IN /\ RowsOf(db_meta', t.name) = assign_table_name(create_meta_df(t.meta), t.name)
             /\ RowsOf(db_columns', t.name) = assign_table_name(t.columns, t.name)
             /\ RowsNotOf(db_meta', t.name) = RowsNotOf(db_meta, t.name)
             /\ RowsNotOf(db_columns', t.name) = RowsNotOf(db_columns, t.name)]_vars

\* a table without data whose meta names a source file that is on disk
FileBacked(t) ==
  /\ t.exists /\ t.data = NoData
  /\ t.has_meta /\ "file" \in DOMAIN t.meta
  /\ IsStr(t.meta["file"]) /\ t.meta["file"].str \in DOMAIN DataFiles

\* C18: in create_table() of a file-backed table without data, under a name
\* the catalog does not hold, the load step leaves the object with the
\* frame read from the source file as its data and with column_names_group
\* 'input_name', and the renaming that follows finds the data
C18_LoadStepKeepsData ==
  [][\A h \in Handles :
       ( /\ last'.op = "create_table"
         /\ FileBacked(tables[h])
         /\ tables[h].name \notin sqlite_master(Store) )
       => LET loaded == create_table_load(list_tables(World(tables[h])))
          IN /\ loaded.self.data = DataFiles[tables[h].meta["file"].str]
             /\ loaded.self.column_names_group = "input_name"
             /\ last'.err # "AttributeError: NoneType has no attribute rename"
             /\ tables'[h].data # NoData]_vars

\* what the data-table step of create_table() raises
DataStepErrors ==
  {"ValueError: The data columns and column meta do not match.",
   "OperationalError: duplicate column name",
   "OperationalError: table already exists",
   "TypeError: sorted"}
\* what update_meta_tables() raises once the rows are purged
AfterPurgeErrors ==
  {"AttributeError: meta",
   "OperationalError: table __meta__ has no column named value"}

\* C19: when create_table() fails in its data-table step, the rows of
\* __meta__ and __columns__ written for the table stay in the store and
\* the store holds no data table of the name; when update_meta_tables()
\* fails after its purge, no row of __meta__ or __columns__ is tagged with
\* the name of the table
C19_NoRollback ==
  [][\A h \in Handles :
       /\ ( /\ last'.op = "create_table" /\ last'.err \in DataStepErrors
            /\ tables[h].exists )
          => LET t == tables'[h]
             IN /\ RowsOf(db_meta', t.name) # <<>>
                /\ DOMAIN t.meta \subseteq FieldValues(RowsOf(db_meta', t.name), "key")
                /\ Len(RowsOf(db_columns', t.name)) >= Len(t.columns)
                /\ ~db_tables'[t.name].exists
       /\ ( /\ last'.op = "update_meta_tables" /\ last'.err \in AfterPurgeErrors
            /\ tables[h].exists )
          => /\ RowsOf(db_meta', tables[h].name) = <<>>
             /\ RowsOf(db_columns', tables[h].name) = <<>>]_vars

\* what C20 says of a call of rename_data_column_names and of a write of the
\* data table, the values of column_names_group being those of flags
RenameAndWrite(h, flags) ==
  /\ ( /\ last'.op = "rename_data_column_names"
       /\ tables[h].exists )
     => /\ last'.arg = tables[h].column_names_group
             => last'.err = OK /\ tables'[h] = tables[h]
        /\ last'.err = OK => tables'[h].column_names_group = last'.arg
  /\ tables'[h].data # NoData => tables'[h].column_names_group \in flags
  /\ ( /\ last'.op \in {"create_table", "overwrite_data_table"}
       /\ tables[h].exists
       /\ last'.err = OK \/ db_tables' # db_tables )
     => tables'[h].column_names_group = "db_name"

\* C20 as stated: a renaming to the namespace the data is in changes
\* nothing; a renaming that returns sets column_names_group to its target;
\* column_names_group is 'input_name' or 'db_name' at all times; the data
\* table is written only while it is 'db_name'
C20_TwoNamespaces ==
  [][\A h \in Handles : RenameAndWrite(h, {"input_name", "db_name"})]_vars

\* C20 amended: column_names_group is 'input_name', 'db_name' or the other
\* column of the columns metadata that a renaming was last asked for, and
\* is one of the two unless such a renaming was made; a renaming that
\* raises leaves the object as it was
C20_NamespacesOfMetadata ==
  [][\A h \in Handles :
       /\ RenameAndWrite(h, {"input_name", "db_name", "output_name"})
       /\ ( /\ last'.op = "rename_data_column_names" /\ last'.err # OK
            /\ tables[h].exists )
          => tables'[h] = tables[h]
       /\ tables'[h].column_names_group \notin {"input_name", "db_name", "unset"}
            => \/ tables'[h].column_names_group = tables[h].column_names_group
               \/ /\ last'.op = "rename_data_column_names"
                  /\ last'.arg = tables'[h].column_names_group]_vars

\* C20 happens: the data of a table of the store, written under its
\* db_names, was renamed back to its input names
C20_Witness ==
  /\ last.op = "rename_data_column_names" /\ last.err = OK
  /\ \E h \in Handles :
       /\ tables[h].exists /\ tables[h].name = last.name
       /\ tables[h].column_names_group = last.arg
       /\ last.arg = "input_name"
       /\ tables[h].data = tables[h].input
       /\ db_tables[last.name].exists
       /\ db_tables[last.name].columns # sql_column_names(tables[h].data)

\* the path tried in the latest round of the loop of excel_out
LastAttempted == export.attempted[Len(export.attempted)]

\* C21: the loop of excel_out makes at most 20 attempts, each failed attempt
\* goes on with the name of the one before and one suffix more, and when
\* all 20 have failed the loop is left with no error raised and filename the
\* path of the last attempt
C21_RetryLeavesLastAttempt ==
  /\ export.loop_count <= 20
  /\ Len(export.attempted) = export.loop_count
  /\ \A i \in 1..Len(export.attempted) :
       /\ export.attempted[i].suffixes = i - 1
       /\ i > 1 => /\ export.attempted[i].dir_name = export.attempted[1].dir_name
                   /\ export.attempted[i].name = export.attempted[1].name
  /\ ( /\ export.pc = "loop" /\ export.loop_count = 20
       /\ ~export.filename_writable )
     => /\ ~(~export.filename_writable /\ export.loop_count < RetryLimit)
        /\ export.err = OK
        /\ export.filename = LastAttempted

\* the format the words of output_format stand for
FormatOfWord ==
  ( "int" :> "int_format" ) @@ ( "float" :> "dec_format" ) @@
  ( "percent" :> "percent_format" ) @@ ( "dec_percent" :> "dec_percent_format" ) @@
  ( "r_percent" :> "real_percent_format" ) @@
  ( "r_dec_percent" :> "real_dec_percent_format" ) @@
  ( "gbp" :> "gbp_format" ) @@ ( "wrap" :> "wrap_format" ) @@
  ( "str" :> "str_format" )

\* C22: when excel_out, having opened its workbook, comes to its end, every
\* data column whose output_format is one of the words has, on its column
\* of the sheet (the index levels come first), the format of its own word
C22_FormatOfOwnWord ==
  [][( /\ export.pc = "loop" /\ export'.pc = "idle" /\ export.writer.bound )
     => \A i \in 1..Len(export.col_format) :
          export.col_format[i] \in DOMAIN FormatOfWord
          => LET column == Len(export.titles) - Len(export.col_format) + i
             IN /\ column \in DOMAIN export'.set_column
                /\ export'.set_column[column] = FormatOfWord[export.col_format[i]]]_vars

====
